---------------------------- MODULE Spec2Model ----------------------------
(***************************************************************************)
(* price_watch: the entity model and storage manager (models.py) and the   *)
(* HTTP views (views.py).                                                  *)
(*                                                                         *)
(* Texts (titles, keywords, synonyms) are sequences of one-character       *)
(* strings; a non-ASCII character is written as a named token.  The state  *)
(* keeps texts as TLA+ strings and TextOf gives their characters.          *)
(***************************************************************************)
EXTENDS Integers, Sequences, FiniteSets, TLC

None == "None"

(***************************************************************************)
(* Bounds of the model.                                                    *)
(***************************************************************************)
MaxProducts == 2
MaxReports == 2
MaxMerchants == 2

(***************************************************************************)
(* Generic helpers.                                                        *)
(***************************************************************************)
Put(f, k, v) == [x \in (DOMAIN f) \cup {k} |-> IF x = k THEN v ELSE f[x]]

Del(f, k) == [x \in (DOMAIN f) \ {k} |-> f[x]]

EmptyMap == [x \in {} |-> None]

Range(s) == {s[i] : i \in DOMAIN s}

\* the sequence s without its element at index i
DropAt(s, i) == [j \in 1..(Len(s) - 1) |-> IF j < i THEN s[j] ELSE s[j + 1]]

(***************************************************************************)
(* Texts.                                                                  *)
(***************************************************************************)
TextOf(t) ==
    CASE t = "milk 1kg"    -> <<"m","i","l","k"," ","1","k","g">>
      [] t = "Milk 0.5kg"  -> <<"M","i","l","k"," ","0",".","5","k","g">>
      [] t = "soy milk 1kg" -> <<"s","o","y"," ","m","i","l","k"," ","1","k","g">>
      [] t = "tea 1kg"     -> <<"t","e","a"," ","1","k","g">>
      [] t = "milk"        -> <<"m","i","l","k">>
      [] t = "milk 2x1kg"  -> <<"m","i","l","k"," ","2","x","1","k","g">>
      [] t = "milk, soy"   -> <<"m","i","l","k",","," ","s","o","y">>
      [] t = "soy"         -> <<"s","o","y">>
      [] t = "1kg"         -> <<"1","k","g">>
      [] t = "0.5kg"       -> <<"0",".","5","k","g">>
      [] t = "1 kg"        -> <<"1"," ","k","g">>
      [] t = "0.5 kg"      -> <<"0",".","5"," ","k","g">>
      [] t = "shop/a"      -> <<"s","h","o","p","/","a">>
      [] t = "shop-a"      -> <<"s","h","o","p","-","a">>
      [] t = "shop b"      -> <<"s","h","o","p"," ","b">>
      [] t = "jane"        -> <<"j","a","n","e">>
      [] t = "dairy"       -> <<"d","a","i","r","y">>
      [] t = "50"          -> <<"5","0">>
      [] t = "http"        -> <<"h","t","t","p">>
      [] t = "abc"         -> <<"a","b","c">>
      [] t = "yesterday"   -> <<"y","e","s","t","e","r","d","a","y">>
      [] t = "2014-10-05 12:00:00"
             -> <<"2","0","1","4","-","1","0","-","0","5"," ","1","2",":","0","0",":","0","0">>
      [] t = "2014-10-05 12:00:00.5"
             -> <<"2","0","1","4","-","1","0","-","0","5"," ","1","2",":","0","0",":","0","0",
                  ".","5">>
      [] t = "tea, 1kg"    -> <<"t","e","a",",", " ","1","k","g">>
      [] t = "CoopMart"    -> <<"C","o","o","p","M","a","r","t">>
      [] t = "Springfield" -> <<"S","p","r","i","n","g","f","i","e","l","d">>
      [] t = "Shelbyville" -> <<"S","h","e","l","b","y","v","i","l","l","e">>

Texts == {"milk 1kg", "Milk 0.5kg", "soy milk 1kg", "tea 1kg", "milk",
          "milk 2x1kg", "milk, soy", "soy", "1kg", "0.5kg", "1 kg", "0.5 kg",
          "shop/a", "shop-a", "shop b", "jane", "dairy", "50", "http",
          "CoopMart", "Springfield", "Shelbyville", "abc", "yesterday",
          "2014-10-05 12:00:00", "2014-10-05 12:00:00.5", "tea, 1kg"}

\* the string whose characters are cs
StrOf(cs) == CHOOSE t \in Texts : TextOf(t) = cs

\* part in string_
IsIn(part, s) ==
    \E i \in 1..(Len(s) - Len(part) + 1) : SubSeq(s, i, i + Len(part) - 1) = part

\* str.split(sep)
RECURSIVE Split(_, _)
Split(s, sep) ==
    LET hits == {i \in 1..(Len(s) - Len(sep) + 1) :
                     SubSeq(s, i, i + Len(sep) - 1) = sep}
    IN IF hits = {} THEN <<s>>
       ELSE LET i == CHOOSE h \in hits : \A g \in hits : h <= g
            IN <<SubSeq(s, 1, i - 1)>> \o Split(SubSeq(s, i + Len(sep), Len(s)), sep)

LowerChar(c) == IF c = "M" THEN "m" ELSE c

\* str.lower()
Lower(s) == [i \in DOMAIN s |-> LowerChar(s[i])]

\* str.replace('/', '-')
ReplaceSlash(s) == [i \in DOMAIN s |-> IF s[i] = "/" THEN "-" ELSE s[i]]

Digits == {"0", "1", "2", "3", "4", "5", "6", "7", "8", "9"}

(***************************************************************************)
(* data_map.yaml: the configuration resource read by load_data_map.  The   *)
(* file is not part of the sources; this is a small well-formed instance   *)
(* of the shape the lookups expect.                                        *)
(***************************************************************************)
MilkNode == [key |-> "milk", title |-> "milk", keyword |-> "milk",
             stopword |-> "soy", normal_package |-> "1 kg"]

DairyNode == [key |-> "dairy", title |-> "dairy", sub |-> <<MilkNode>>]

\* load_data_map('ProductCategory')
CategoryData == [sub |-> <<DairyNode>>]

\* load_data_map('ProductPackage'), in the order the mapping is iterated
PackageData == << [key |-> "1 kg", synonyms |-> <<"1kg">>],
                  [key |-> "0.5 kg", synonyms |-> <<"0.5kg">>] >>

(***************************************************************************)
(* Classification (models.py, module functions).  A lookup that finds      *)
(* nothing returns the empty sequence, a match the one-element sequence.   *)
(***************************************************************************)
RECURSIVE traverse(_, _, _)
RECURSIVE traverse_subs(_, _, _, _)
traverse_subs(target, subs, i, return_parent) ==
    IF i > Len(subs) THEN <<>>
    ELSE LET match == traverse(target, subs[i], return_parent)
         IN IF match # <<>> THEN match
            ELSE traverse_subs(target, subs, i + 1, return_parent)

traverse(target, category_node, return_parent) ==
    IF "sub" \notin DOMAIN category_node THEN <<>>
    ELSE LET subcategories == category_node.sub
             hit == {i \in DOMAIN subcategories : subcategories[i].key = target}
         IN IF hit # {}
            THEN IF return_parent THEN <<category_node>>
                 ELSE <<subcategories[CHOOSE i \in hit : TRUE]>>
            ELSE traverse_subs(target, subcategories, 1, return_parent)

\* every word of the phrase occurs in the string
PhraseIn(phrase, string_) ==
    \A part \in Range(Split(phrase, <<" ">>)) : IsIn(part, string_)

\* no word of the phrase occurs in the string
PhraseOut(phrase, string_) ==
    \A part \in Range(Split(phrase, <<" ">>)) : ~IsIn(part, string_)

RECURSIVE keyword_lookup(_, _)
RECURSIVE keyword_lookup_subs(_, _, _)
keyword_lookup_subs(string_, subs, i) ==
    IF i > Len(subs) THEN <<>>
    ELSE LET match == keyword_lookup(string_, subs[i])
         IN IF match # <<>> THEN match
            ELSE keyword_lookup_subs(string_, subs, i + 1)

\* a lookup that does not read the stopword field
KeywordOnlyLookup(string_, data_map) ==
    IF /\ "keyword" \in DOMAIN data_map
       /\ \E phrase \in Range(Split(TextOf(data_map.keyword), <<",", " ">>)) :
              PhraseIn(phrase, string_)
    THEN <<data_map>>
    ELSE IF "sub" \in DOMAIN data_map
         THEN keyword_lookup_subs(string_, data_map.sub, 1)
         ELSE <<>>

keyword_lookup(string_, data_map) ==
    LET keyword_met ==
            IF "keyword" \notin DOMAIN data_map THEN FALSE
            ELSE \E phrase \in Range(Split(TextOf(data_map.keyword), <<",", " ">>)) :
                     PhraseIn(phrase, string_)
        stopword_met ==
            IF "stopword" \in DOMAIN data_map
            THEN \A phrase \in Range(Split(TextOf(data_map.stopword), <<",", " ">>)) :
                     PhraseOut(phrase, string_)
            ELSE TRUE
    IN IF keyword_met /\ stopword_met THEN <<data_map>>
       ELSE IF "sub" \in DOMAIN data_map
            THEN keyword_lookup_subs(string_, data_map.sub, 1)
            ELSE <<>>

CategoryLookupError == "CategoryLookupError"
PackageLookupError == "PackageLookupError"

\* Product.get_category_key: the category's title, or CategoryLookupError
get_category_key(title) ==
    LET category_data == keyword_lookup(Lower(TextOf(title)), CategoryData)
    IN IF category_data # <<>> THEN category_data[1].title ELSE CategoryLookupError

Sep1 == {".", ",", "cyr_ha", "x", "*", "-"}
White == {" "}
Sep2 == {".", ",", "cyr_ha", "x", "*"} \cup White

\* the look-behind patterns of Product.get_package_key at position i of t
LookBehind(k, t, i) ==
    CASE k = 1 -> ~(i >= 3 /\
                    LET a == t[i - 2]
                        b == t[i - 1]
                    IN \/ (a \in Digits /\ b \in Sep1)
                       \/ (a \in Digits /\ b \in Digits)
                       \/ (a = "+" /\ b \in White)
                       \/ (a \in White /\ b = "+")
                       \/ (a \in Digits /\ b = "+")
                       \/ (a \in Sep2 /\ b \in Digits))
      [] k = 2 -> i >= 7 /\ SubSeq(t, i - 6, i - 1) =
                      <<"cyr_ef", "cyr_a", "cyr_es", "cyr_o", "cyr_ve", ".">>
      [] k = 3 -> i >= 4 /\ t[i - 3] = "numero" /\ t[i - 2] \in Digits
                         /\ t[i - 1] \in {".", ","}
      [] k = 4 -> i >= 5 /\ t[i - 4] = "numero" /\ t[i - 3] \in Digits
                         /\ t[i - 2] \in Digits /\ t[i - 1] \in {".", ","}
      [] k = 5 -> i >= 6 /\ t[i - 5] = "numero" /\ t[i - 4] \in Digits
                         /\ t[i - 3] \in Digits /\ t[i - 2] \in Digits
                         /\ t[i - 1] \in {".", ","}

\* re.search(pattern + re.escape(synonym), title) for one of the five patterns
SynonymMatches(synonym, t) ==
    \E k \in 1..5 : \E i \in 1..(Len(t) - Len(synonym) + 1) :
        SubSeq(t, i, i + Len(synonym) - 1) = synonym /\ LookBehind(k, t, i)

PackMatches(pack, t) ==
    /\ \E j \in DOMAIN pack.synonyms : SynonymMatches(TextOf(pack.synonyms[j]), t)
    /\ IF "unlike" \in DOMAIN pack
       THEN \A j \in DOMAIN pack.unlike : ~IsIn(TextOf(pack.unlike[j]), t)
       ELSE TRUE

\* Product.get_package_key: the first package that matches, or PackageLookupError
get_package_key(title) ==
    LET hits == {n \in DOMAIN PackageData : PackMatches(PackageData[n], TextOf(title))}
    IN IF hits = {} THEN PackageLookupError
       ELSE PackageData[CHOOSE n \in hits : \A m \in hits : n <= m].key

\* ProductCategory.get_category_key: the parent's title, or None
get_parent_key(title) ==
    LET parent_category_dict == traverse(title, CategoryData, TRUE)
    IN IF parent_category_dict = <<>> THEN None ELSE parent_category_dict[1].title

DigitVal(c) == CHOOSE n \in 0..9 : <<"0","1","2","3","4","5","6","7","8","9">>[n + 1] = c

RECURSIVE IntOf(_)
IntOf(ds) ==
    IF ds = <<>> THEN 0
    ELSE 10 * IntOf(SubSeq(ds, 1, Len(ds) - 1)) + DigitVal(ds[Len(ds)])

\* float(amount), in tenths (the configured amounts have one decimal at most)
Tenths(cs) ==
    LET p == Split(cs, <<".">>)
    IN 10 * IntOf(p[1]) + (IF Len(p) > 1 /\ p[2] # <<>> THEN DigitVal(p[2][1]) ELSE 0)

\* ProductPackage.get_ratio: <<pack_amount, norm_amount>> in tenths, standing
\* for the float pack_amount / norm_amount (the configured packages and the
\* normal package share the unit, so no conversion takes place)
get_ratio(package_title, category_title) ==
    LET category == traverse(category_title, CategoryData, FALSE)
        norm == Split(TextOf(category[1].normal_package), <<" ">>)
        pack == Split(TextOf(package_title), <<" ">>)
    IN <<Tenths(pack[1]), Tenths(norm[1])>>

\* a normalization that keeps the price as reported
RawPrice(price_value, ratio) == price_value

\* price_value / ratio
NormalizedPrice(price_value, ratio) == (price_value * ratio[2]) \div ratio[1]

(***************************************************************************)
(* Inputs.                                                                 *)
(***************************************************************************)
ProductTitles == {"milk 1kg", "Milk 0.5kg", "tea 1kg", "milk"}
MerchantTitles == {"shop/a", "shop b"}
ReporterNames == {"jane"}
Prices == {50}
\* An optional argument is the empty sequence when absent, else <<value>>:
\* an absent uuid makes the report draw uuid4(), an absent date_time now()
Absent == <<>>

\* datetime.datetime.now(), in days; a report's date_time is a day as well
Now == 10
\* REPORT_LIFETIME, in days
REPORT_LIFETIME == 7

(***************************************************************************)
(* The object store.  A store is what one ZODB connection sees:            *)
(*   ns          the namespaces present in the root mapping                *)
(*   <namespace> the BTree of the namespace: key -> instance               *)
(*   prod, rep, merch   the Product, PriceReport and Merchant instances,   *)
(*               an instance being its index (instances with equal keys    *)
(*               may coexist, and an instance outlives its registration)   *)
(*   cat, typ    the ProductCategory and Category instances, by title      *)
(*               (they are created by acquire only: one per key)           *)
(* A ProductPackage or a Reporter has no state beside its title or name.   *)
(***************************************************************************)
Namespaces == {"reports", "merchants", "packages", "types", "categories",
               "products", "reporters"}

EmptyStore ==
    [ns |-> {}, reports |-> EmptyMap, merchants |-> EmptyMap, packages |-> EmptyMap,
     types |-> EmptyMap, categories |-> EmptyMap, products |-> EmptyMap,
     reporters |-> EmptyMap, prod |-> <<>>, rep |-> <<>>, merch |-> <<>>,
     cat |-> EmptyMap, typ |-> EmptyMap]

\* Entity.key for the default pattern {title} (Reporter: {name})
KeyOf(title) == StrOf(ReplaceSlash(TextOf(title)))

ProdKey(s, pid) == KeyOf(s.prod[pid].title)
MerchKey(s, mid) == KeyOf(s.merch[mid].title)
\* PriceReport.key: the pattern {uuid}
RepKey(s, rid) == s.rep[rid].uuid

\* the indexes of the products (merchants, reports) of a list equal to a key
ProdIdx(s, list, key) == {i \in DOMAIN list : ProdKey(s, list[i]) = key}
MerchIdx(s, list, key) == {i \in DOMAIN list : MerchKey(s, list[i]) = key}
RepIdx(s, list, key) == {i \in DOMAIN list : RepKey(s, list[i]) = key}

Min(S) == CHOOSE x \in S : \A y \in S : x <= y

\* StorageManager.get(namespace, key) is not None
Has(s, namespace, key) == namespace \in s.ns /\ key \in DOMAIN s[namespace]

\* StorageManager.register, for one instance: an overwriting variant first
RegisterOverwrite(s, namespace, key, instance) ==
    [s EXCEPT !.ns = @ \cup {namespace}, ![namespace] = Put(@, key, instance)]

register(s, namespace, key, instance) ==
    LET s1 == [s EXCEPT !.ns = @ \cup {namespace}]
    IN IF key \in DOMAIN s1[namespace] THEN s1
       ELSE [s1 EXCEPT ![namespace] = Put(@, key, instance)]

\* StorageManager.delete_key
delete_key(s, namespace, key) ==
    IF Has(s, namespace, key) THEN [s EXCEPT ![namespace] = Del(@, key)] ELSE s

NewProduct(title) ==
    [title |-> title, category |-> None, package |-> None, package_ratio |-> <<>>,
     reports |-> <<>>, merchants |-> <<>>]

NewMerchant(title) == [title |-> title, location |-> None, products |-> <<>>]

\* Entity.acquire for Reporter and ProductPackage: [s, new]
acquire_plain(s, namespace, key_attr) ==
    LET key == KeyOf(key_attr)
    IN IF Has(s, namespace, key) THEN [s |-> s, new |-> FALSE]
       ELSE [s |-> register(s, namespace, key, key), new |-> TRUE]

\* ProductCategory.acquire: [s, new]
acquire_category(s, key_attr) ==
    LET key == KeyOf(key_attr)
    IN IF Has(s, "categories", key) THEN [s |-> s, new |-> FALSE]
       ELSE [s |-> register([s EXCEPT !.cat = Put(@, key, [products |-> <<>>, category |-> None])],
                            "categories", key, key),
             new |-> TRUE]

\* Category.acquire: [s, new]
acquire_type(s, key_attr) ==
    LET key == KeyOf(key_attr)
    IN IF Has(s, "types", key) THEN [s |-> s, new |-> FALSE]
       ELSE [s |-> register([s EXCEPT !.typ = Put(@, key, [categories |-> <<>>])],
                            "types", key, key),
             new |-> TRUE]

\* an acquire that constructs and registers without fetching first
AcquireWithoutFetch(s, key_attr) ==
    [s |-> register([s EXCEPT !.merch = Append(@, NewMerchant(key_attr))],
                    "merchants", KeyOf(key_attr), Len(s.merch) + 1),
     mid |-> Len(s.merch) + 1, new |-> TRUE]

\* Merchant.acquire: [s, mid, new]
acquire_merchant(s, key_attr) ==
    LET key == KeyOf(key_attr)
        mid == Len(s.merch) + 1
    IN IF Has(s, "merchants", key) THEN [s |-> s, mid |-> s.merchants[key], new |-> FALSE]
       ELSE [s |-> register([s EXCEPT !.merch = Append(@, NewMerchant(key_attr))],
                            "merchants", key, mid),
             mid |-> mid, new |-> TRUE]

\* Product.acquire: [s, pid, new]
acquire_product(s, key_attr) ==
    LET key == KeyOf(key_attr)
        pid == Len(s.prod) + 1
    IN IF Has(s, "products", key) THEN [s |-> s, pid |-> s.products[key], new |-> FALSE]
       ELSE [s |-> register([s EXCEPT !.prod = Append(@, NewProduct(key_attr))],
                            "products", key, pid),
             pid |-> pid, new |-> TRUE]

(***************************************************************************)
(* Entity.add / Entity.remove on the inner containers.  Membership is      *)
(* Entity.__eq__: equality of keys.                                        *)
(***************************************************************************)
\* category.add(product)
CategoryAdd(s, ckey, pid) ==
    IF ProdIdx(s, s.cat[ckey].products, ProdKey(s, pid)) # {} THEN s
    ELSE [s EXCEPT !.cat[ckey].products = Append(@, pid)]

\* merchant.add(product)
MerchantAdd(s, mid, pid) ==
    IF ProdIdx(s, s.merch[mid].products, ProdKey(s, pid)) # {} THEN s
    ELSE [s EXCEPT !.merch[mid].products = Append(@, pid)]

\* an add that appends without looking
ProductAppend(s, pid, rid) ==
    [s EXCEPT !.prod[pid].reports = Append(@, rid)]

\* product.add(report)
ProductAdd(s, pid, rid) ==
    IF RepIdx(s, s.prod[pid].reports, RepKey(s, rid)) # {} THEN s
    ELSE [s EXCEPT !.prod[pid].reports = Append(@, rid)]

\* product.remove(report)
ProductRemove(s, pid, rid) ==
    LET hits == RepIdx(s, s.prod[pid].reports, RepKey(s, rid))
    IN IF hits = {} THEN s
       ELSE [s EXCEPT !.prod[pid].reports = DropAt(@, Min(hits))]

\* ProductCategory.remove_product: product.category = None; self.remove(product)
remove_product(s, ckey, pid) ==
    LET hits == ProdIdx(s, s.cat[ckey].products, ProdKey(s, pid))
    IN IF hits = {} THEN [s EXCEPT !.prod[pid].category = None]
       ELSE [s EXCEPT !.prod[pid].category = None,
                      !.cat[ckey].products = DropAt(@, Min(hits))]

\* Product.add_merchant
add_merchant(s, pid, mid) ==
    IF MerchIdx(s, s.prod[pid].merchants, MerchKey(s, mid)) # {} THEN s
    ELSE [s EXCEPT !.prod[pid].merchants = Append(@, mid)]

\* Category.add(product_category)
TypeAdd(s, tkey, ckey) ==
    IF \E i \in DOMAIN s.typ[tkey].categories : s.typ[tkey].categories[i] = ckey THEN s
    ELSE [s EXCEPT !.typ[tkey].categories = Append(@, ckey)]

(***************************************************************************)
(* Product.assemble: [s, err, pid, stats].  Both keys are resolved before  *)
(* anything is acquired.  The statements after that are store              *)
(* transformers, composed in the order of the code.                        *)
(***************************************************************************)
\* product_category, cat_is_new = ProductCategory.acquire(...);
\* product_category.add_product(product); product.category = product_category
set_category(s, pid, product_category_key) ==
    CategoryAdd([acquire_category(s, product_category_key).s
                    EXCEPT !.prod[pid].category = KeyOf(product_category_key)],
                KeyOf(product_category_key), pid)

\* package, pack_is_new = ProductPackage.acquire(...); product.package = package;
\* product.package_ratio = package.get_ratio(product_category)
set_package(s, pid, package_key) ==
    [acquire_plain(s, "packages", package_key).s
        EXCEPT !.prod[pid].package = KeyOf(package_key),
               !.prod[pid].package_ratio = get_ratio(package_key, s.prod[pid].category)]

\* category = Category.acquire(category_key); category.add(product_category);
\* product_category.category = category
link_category(s, ckey, category_key) ==
    [TypeAdd(acquire_type(s, category_key).s, KeyOf(category_key), ckey)
        EXCEPT !.cat[ckey].category = KeyOf(category_key)]

set_general_category(s, pid) ==
    link_category(s, s.prod[pid].category, get_parent_key(s.prod[pid].category))

\* storage_manager.register(product, product_category, category)
register_product(s, pid) ==
    register(register(register(s, "products", ProdKey(s, pid), pid),
                      "categories", s.prod[pid].category, s.prod[pid].category),
             "types", s.cat[s.prod[pid].category].category,
             s.cat[s.prod[pid].category].category)

\* an assemble that stores the product as constructed, whatever the lookups say
AssembleUnclassified(s, title, product_category_key, package_key) ==
    [s |-> register([s EXCEPT !.prod = Append(@, NewProduct(title))],
                    "products", KeyOf(title), Len(s.prod) + 1),
     err |-> None, pid |-> Len(s.prod) + 1, stats |-> <<FALSE, FALSE>>]

\* the flags are the created_new of the two acquire calls; neither call's
\* namespace is touched before it
product_assemble_keys(s, title, product_category_key, package_key) ==
    IF product_category_key = CategoryLookupError
    THEN [s |-> s, err |-> CategoryLookupError, pid |-> 0, stats |-> <<>>]
    ELSE IF package_key = PackageLookupError
    THEN [s |-> s, err |-> PackageLookupError, pid |-> 0, stats |-> <<>>]
    ELSE [s |-> register_product(
                    set_general_category(
                        set_package(
                            set_category([s EXCEPT !.prod = Append(@, NewProduct(title))],
                                         Len(s.prod) + 1, product_category_key),
                            Len(s.prod) + 1, package_key),
                        Len(s.prod) + 1),
                    Len(s.prod) + 1),
          err |-> None, pid |-> Len(s.prod) + 1,
          stats |-> <<acquire_category(s, product_category_key).new,
                      acquire_plain(s, "packages", package_key).new>>]

product_assemble(s, title) ==
    product_assemble_keys(s, title, get_category_key(title), get_package_key(title))

(***************************************************************************)
(* PriceReport.__init__ / _get_normalized_price: the ratio of the report's *)
(* product, or the error the constructor raises.                           *)
(***************************************************************************)
\* Product.get_package: the package's title, or PackageLookupError
get_package(s, pid) ==
    IF s.prod[pid].package # None THEN s.prod[pid].package
    ELSE get_package_key(s.prod[pid].title)

\* None when the price can be normalized, else the exception's name
NormalizeError(s, pid) ==
    IF get_package(s, pid) = PackageLookupError THEN PackageLookupError
    ELSE IF s.prod[pid].category = None THEN "AttributeError"
    ELSE None

(***************************************************************************)
(* Instances nothing refers to.  An instance is alive while a namespace,   *)
(* or a container or an attribute of a live instance, holds it; Python     *)
(* frees the others.  A freed instance leaves the placeholder Dead; one   *)
(* that the operation itself created is cut off the list of instances,     *)
(* so that an index counts the instances that were ever stored.            *)
(***************************************************************************)
Dead == [dead |-> TRUE]

\* the products P, reports R and merchants M reached from x in any number of steps
RECURSIVE Reachable(_, _)
Reachable(s, x) ==
    LET y == [P |-> x.P \cup {s.rep[r].product : r \in x.R}
                        \cup UNION {Range(s.merch[m].products) : m \in x.M},
              R |-> x.R \cup UNION {Range(s.prod[p].reports) : p \in x.P},
              M |-> x.M \cup {s.rep[r].merchant : r \in x.R}
                        \cup UNION {Range(s.prod[p].merchants) : p \in x.P}]
    IN IF y = x THEN x ELSE Reachable(s, y)

Live(s) ==
    Reachable(s, [P |-> Range(s.products)
                        \cup UNION {Range(s.cat[c].products) : c \in DOMAIN s.cat},
                  R |-> Range(s.reports),
                  M |-> Range(s.merchants)])

\* the list less the placeholders at its end, down to length n at most
RECURSIVE Trim(_, _)
Trim(list, n) ==
    IF Len(list) > n /\ list[Len(list)] = Dead
    THEN Trim(SubSeq(list, 1, Len(list) - 1), n)
    ELSE list

\* the store s that an operation made of the store old
Collect(s, old) ==
    LET live == Live(s)
    IN [s EXCEPT !.prod = Trim([i \in DOMAIN @ |-> IF i \in live.P THEN @[i] ELSE Dead],
                               Len(old.prod)),
                 !.rep = Trim([i \in DOMAIN @ |-> IF i \in live.R THEN @[i] ELSE Dead],
                              Len(old.rep)),
                 !.merch = Trim([i \in DOMAIN @ |-> IF i \in live.M THEN @[i] ELSE Dead],
                                Len(old.merch))]

(***************************************************************************)
(* PriceReport.assemble: [s, err, rid, key, stats].  date_time and uuid    *)
(* are optional.  cat_is_new and pack_is_new are set to False and          *)
(* never assigned again; the stats of Product.assemble are not read.       *)
(***************************************************************************)
\* product.add_merchant(merchant); merchant.add_product(product)
link_merchant(s, pid, mid) == MerchantAdd(add_merchant(s, pid, mid), mid, pid)

\* merchant = Merchant.acquire(merchant_key, storage_manager) and the two adds
with_merchant(s, pid, merchant_key) ==
    link_merchant(acquire_merchant(s, merchant_key).s, pid,
                  acquire_merchant(s, merchant_key).mid)

\* report = cls(...); product.add_report(report); storage_manager.register(report)
\* uuid or uuid4(): a fresh uuid is the instance's own index
new_report(s, pid, mid, rid, price_value, reporter_name, date_time, uuid) ==
    [uuid |-> IF uuid = Absent THEN rid ELSE uuid[1],
     product |-> pid, merchant |-> mid, reporter |-> KeyOf(reporter_name),
     price_value |-> price_value,
     normalized_price_value |->
         NormalizedPrice(price_value,
                         get_ratio(get_package(s, pid), s.prod[pid].category)),
     date_time |-> IF date_time = Absent THEN Now ELSE date_time[1]]

add_report(s, pid, rid, report) ==
    register(ProductAdd([s EXCEPT !.rep = Append(@, report)], pid, rid),
             "reports", report.uuid, rid)

\* the lines after the merchant's: s holds the merchant, linked to the product
assemble_report(s, pid, mid, prod_is_new, price_value, reporter_name, date_time, uuid) ==
    IF NormalizeError(s, pid) # None
    THEN [s |-> s, err |-> NormalizeError(s, pid), rid |-> 0, key |-> 0, stats |-> <<>>]
    ELSE [s |-> add_report(s, pid, Len(s.rep) + 1,
                           new_report(s, pid, mid, Len(s.rep) + 1, price_value,
                                      reporter_name, date_time, uuid)),
          err |-> None, rid |-> Len(s.rep) + 1,
          key |-> IF uuid = Absent THEN Len(s.rep) + 1 ELSE uuid[1],
          stats |-> <<prod_is_new, FALSE, FALSE>>]

\* the lines after the product's: pa is the product, fetched or assembled
assemble_product(pa, prod_is_new, price_value, merchant_key, reporter_name, date_time, uuid) ==
    IF pa.err # None
    THEN [s |-> pa.s, err |-> pa.err, rid |-> 0, key |-> 0, stats |-> <<>>]
    ELSE assemble_report(
             acquire_plain(with_merchant(pa.s, pa.pid, merchant_key),
                           "reporters", reporter_name).s,
             pa.pid, acquire_merchant(pa.s, merchant_key).mid, prod_is_new,
             price_value, reporter_name, date_time, uuid)

assemble(s, price_value, product_title, merchant_title, reporter_name, date_time, uuid) ==
    IF Has(s, "products", KeyOf(product_title))
    THEN assemble_product([s |-> s, err |-> None, pid |-> s.products[KeyOf(product_title)]],
                          FALSE, price_value, KeyOf(merchant_title), reporter_name,
                          date_time, uuid)
    ELSE assemble_product(product_assemble(s, product_title),
                          TRUE, price_value, KeyOf(merchant_title), reporter_name,
                          date_time, uuid)

(***************************************************************************)
(* PriceReport.delete_from: [s, err].  list.remove raises ValueError when  *)
(* no report of the product's list equals the report; the handler catches  *)
(* KeyError and AttributeError only.                                       *)
(***************************************************************************)
\* a variant that deletes the key and leaves the product's list alone
ReportDeleteKeyOnly(s, rid) ==
    [s |-> delete_key(s, "reports", RepKey(s, rid)), err |-> None]

report_delete_from(s, rid) ==
    LET pid == s.rep[rid].product
        hits == RepIdx(s, s.prod[pid].reports, RepKey(s, rid))
    IN IF hits = {} THEN [s |-> s, err |-> "ValueError"]
       ELSE [s |-> delete_key([s EXCEPT !.prod[pid].reports = DropAt(@, Min(hits))],
                              "reports", RepKey(s, rid)),
             err |-> None]

(***************************************************************************)
(* Product.delete_from: [s, err].  The loop over self.reports runs on the  *)
(* list that report.delete_from shrinks: the iterator keeps its index.     *)
(***************************************************************************)
RECURSIVE remove_from_merchants(_, _, _)
\* a delete_from that leaves the merchants' containers alone
KeepInMerchants(s, pid, i) == [s |-> s, err |-> None]

remove_from_merchants(s, pid, i) ==
    IF i > Len(s.prod[pid].merchants) THEN [s |-> s, err |-> None]
    ELSE LET mid == s.prod[pid].merchants[i]
             hits == ProdIdx(s, s.merch[mid].products, ProdKey(s, pid))
         IN IF hits = {} THEN [s |-> s, err |-> "ValueError"]
            ELSE remove_from_merchants(
                     [s EXCEPT !.merch[mid].products = DropAt(@, Min(hits))], pid, i + 1)

RECURSIVE delete_reports(_, _, _)
delete_reports(s, pid, i) ==
    IF i > Len(s.prod[pid].reports) THEN [s |-> s, err |-> None]
    ELSE LET r == report_delete_from(s, s.prod[pid].reports[i])
         IN IF r.err # None THEN r ELSE delete_reports(r.s, pid, i + 1)

product_delete_from(s, pid) ==
    LET key == ProdKey(s, pid)
        ckey == s.prod[pid].category
        chits == IF ckey = None THEN {} ELSE ProdIdx(s, s.cat[ckey].products, key)
        \* the try block: AttributeError (no category) is passed over
        tried == IF ckey = None THEN [s |-> s, err |-> None]
                 ELSE IF chits = {} THEN [s |-> s, err |-> "ValueError"]
                 ELSE remove_from_merchants(
                          [s EXCEPT !.cat[ckey].products = DropAt(@, Min(chits))], pid, 1)
    IN IF tried.err # None THEN tried
       ELSE LET d == delete_reports(tried.s, pid, 1)
            IN IF d.err # None THEN d
               ELSE [s |-> delete_key(d.s, "products", key), err |-> None]

(***************************************************************************)
(* Prices.  A median is kept doubled, so that it stays an integer.         *)
(***************************************************************************)
\* Product.get_last_report: the report's index, or 0 for None.  merchant is 0
\* when none is given; sorted() is stable, so of two reports of one date the
\* later in the list comes last
\* a get_last_report that does not look at the merchant
LastReportOfAnyMerchant(s, pid, date_time, merchant) ==
    LET reports == s.prod[pid].reports
        qualified == {i \in DOMAIN reports : s.rep[reports[i]].date_time <= date_time}
        After(i, j) == \/ s.rep[reports[i]].date_time > s.rep[reports[j]].date_time
                       \/ /\ s.rep[reports[i]].date_time = s.rep[reports[j]].date_time
                          /\ i >= j
    IN IF qualified = {} THEN 0
       ELSE reports[CHOOSE i \in qualified : \A j \in qualified : After(i, j)]

get_last_report(s, pid, date_time, merchant) ==
    LET reports == s.prod[pid].reports
        qualified == {i \in DOMAIN reports :
                         /\ s.rep[reports[i]].date_time <= date_time
                         /\ (merchant # 0 => s.rep[reports[i]].merchant = merchant)}
        After(i, j) == \/ s.rep[reports[i]].date_time > s.rep[reports[j]].date_time
                       \/ /\ s.rep[reports[i]].date_time = s.rep[reports[j]].date_time
                          /\ i >= j
    IN IF qualified = {} THEN 0
       ELSE reports[CHOOSE i \in qualified : \A j \in qualified : After(i, j)]

\* Product.get_last_reported_price: <<>> for None, else <<the price>>
get_last_reported_price(s, pid, date_time, normalized) ==
    IF get_last_report(s, pid, date_time, 0) = 0 THEN <<>>
    ELSE IF normalized
    THEN <<s.rep[get_last_report(s, pid, date_time, 0)].normalized_price_value>>
    ELSE <<s.rep[get_last_report(s, pid, date_time, 0)].price_value>>

\* the loop of Product.get_price: the known prices, from merchant i on.
\* location is None when none is asked for; a merchant elsewhere ends the loop
RECURSIVE known_prices(_, _, _, _, _)
\* a loop that takes the last report of every merchant, however old
RECURSIVE KnownPricesOfAnyAge(_, _, _, _, _)
KnownPricesOfAnyAge(s, pid, date_time, location, i) ==
    IF i > Len(s.prod[pid].merchants) THEN <<>>
    ELSE LET mid == s.prod[pid].merchants[i]
             report == get_last_report(s, pid, date_time, mid)
             rest == KnownPricesOfAnyAge(s, pid, date_time, location, i + 1)
         IN IF location # None /\ s.merch[mid].location # location THEN <<>>
            ELSE IF report # 0
                 THEN <<s.rep[report].normalized_price_value>> \o rest
                 ELSE rest

known_prices(s, pid, date_time, location, i) ==
    IF i > Len(s.prod[pid].merchants) THEN <<>>
    ELSE LET mid == s.prod[pid].merchants[i]
             report == get_last_report(s, pid, date_time, mid)
             rest == known_prices(s, pid, date_time, location, i + 1)
         IN IF location # None /\ s.merch[mid].location # location THEN <<>>
            ELSE IF report # 0 /\ s.rep[report].date_time > date_time - REPORT_LIFETIME
                 THEN <<s.rep[report].normalized_price_value>> \o rest
                 ELSE rest

\* numpy.median, doubled
Median2(prices) ==
    LET sorted == SortSeq(prices, LAMBDA a, b : a < b)
        n == Len(sorted)
    IN IF n % 2 = 1 THEN 2 * sorted[(n + 1) \div 2]
       ELSE sorted[n \div 2] + sorted[n \div 2 + 1]

\* Product.get_price (normalized): <<>> for None, else <<the doubled median>>
get_price(s, pid, date_time, location) ==
    LET prices == known_prices(s, pid, date_time, location, 1)
    IN IF Len(prices) > 0 THEN <<Median2(prices)>> ELSE <<>>

\* ProductCategory.get_data('min_package_ratio'): <<>> when not configured
MinPackageRatio(ckey) ==
    LET node == traverse(ckey, CategoryData, FALSE)[1]
    IN IF "min_package_ratio" \in DOMAIN node THEN <<node.min_package_ratio>> ELSE <<>>

\* ProductCategory.get_qualified_products: the (product, price) tuples.  A
\* price that is None or 0 is false
RECURSIVE qualified_from(_, _, _, _, _)
qualified_from(s, ckey, date_time, location, i) ==
    IF i > Len(s.cat[ckey].products) THEN <<>>
    ELSE LET pid == s.cat[ckey].products[i]
             min_package_ratio == MinPackageRatio(ckey)
             ratio == s.prod[pid].package_ratio
             package_fit == IF min_package_ratio # <<>> /\ ratio # <<>>
                            THEN ratio[1] * 10 >= Tenths(TextOf(min_package_ratio[1])) * ratio[2]
                            ELSE min_package_ratio = <<>>
             product_price == get_price(s, pid, date_time, location)
             rest == qualified_from(s, ckey, date_time, location, i + 1)
         IN IF package_fit /\ product_price # <<>> /\ product_price # <<0>>
            THEN <<<<pid, product_price[1]>>>> \o rest
            ELSE rest

get_qualified_products(s, ckey, date_time, location) ==
    qualified_from(s, ckey, date_time, location, 1)

(***************************************************************************)
(* get_delta (models.py, module function).  A number is an int or a float  *)
(* of value v; an argument is Absent (None) or <<number>>.  The result is  *)
(* the fraction num / den, an int when float is FALSE, or the exception    *)
(* the call raises.  The module does not import division from __future__:  *)
(* int / int is the floor of the quotient.                                 *)
(***************************************************************************)
get_delta(base_price, current_price, relative) ==
    IF base_price = Absent \/ current_price = Absent
    THEN [error |-> None, float |-> FALSE, num |-> 0, den |-> 1]
    ELSE IF ~relative
    THEN [error |-> None, float |-> base_price[1].float \/ current_price[1].float,
          num |-> current_price[1].v - base_price[1].v, den |-> 1]
    ELSE IF base_price[1].v = 0
    THEN [error |-> "ZeroDivisionError", float |-> FALSE, num |-> 0, den |-> 1]
    ELSE IF base_price[1].float \/ current_price[1].float
    THEN [error |-> None, float |-> TRUE,
          num |-> current_price[1].v - base_price[1].v, den |-> base_price[1].v]
    ELSE [error |-> None, float |-> FALSE,
          num |-> (current_price[1].v - base_price[1].v) \div base_price[1].v, den |-> 1]

(***************************************************************************)
(* ProductCategory.get_prices / get_price.  The prices of a category are   *)
(* in thousandths, so that rounding to two decimals has something to do.   *)
(***************************************************************************)
\* ProductCategory.get_prices: the prices of the qualified products
get_prices(s, ckey, date_time, location) ==
    [i \in DOMAIN get_qualified_products(s, ckey, date_time, location) |->
         500 * get_qualified_products(s, ckey, date_time, location)[i][2]]

\* round(x, 2) of a value given doubled and in thousandths, in hundredths;
\* a half is rounded away from zero
Round2(doubled) == (doubled + 10) \div 20

\* a get_price that answers with the lower middle price of the list
LowerMiddlePrice(s, ckey, date_time, prices, cheap, location) ==
    LET list == IF prices # <<>> THEN prices ELSE get_prices(s, ckey, date_time, location)
        sorted == SortSeq(list, LAMBDA a, b : a < b)
    IN IF Len(list) > 0 THEN <<sorted[(Len(list) + 1) \div 2]>> ELSE <<>>

\* ProductCategory.get_price: <<>> for None, else <<the price>>.  An absent
\* or empty prices argument is replaced by get_prices
category_get_price(s, ckey, date_time, prices, cheap, location) ==
    LET list == IF prices # <<>> THEN prices ELSE get_prices(s, ckey, date_time, location)
    IN IF Len(list) > 0
       THEN IF cheap
            THEN <<Min(Range(list))>>
            ELSE <<10 * Round2(Median2(list))>>
       ELSE <<>>

(***************************************************************************)
(* get_price_delta of a product and of a category: get_delta of the price  *)
(* at the baseline date and the price now, both floats or None.            *)
(***************************************************************************)
get_price_delta(s, pid, date_time, relative) ==
    LET base_price == get_last_reported_price(s, pid, date_time, TRUE)
        current_price == get_last_reported_price(s, pid, Now, TRUE)
    IN [base_price |-> base_price, current_price |-> current_price,
        delta |-> get_delta([i \in DOMAIN base_price |-> [float |-> TRUE, v |-> base_price[i]]],
                            [i \in DOMAIN current_price |->
                                 [float |-> TRUE, v |-> current_price[i]]],
                            relative)]

category_get_price_delta(s, ckey, date_time, relative, location) ==
    LET base_price == category_get_price(s, ckey, date_time, <<>>, FALSE, location)
        current_price == category_get_price(s, ckey, Now, <<>>, FALSE, location)
    IN [base_price |-> base_price, current_price |-> current_price,
        delta |-> get_delta([i \in DOMAIN base_price |-> [float |-> TRUE, v |-> base_price[i]]],
                            [i \in DOMAIN current_price |->
                                 [float |-> TRUE, v |-> current_price[i]]],
                            relative)]

(***************************************************************************)
(* The views (views.py).                                                   *)
(***************************************************************************)
\* float(text) succeeds: digits with at most one point
IsDecimal(cs) ==
    /\ \E i \in DOMAIN cs : cs[i] \in Digits
    /\ \A i \in DOMAIN cs : cs[i] \in Digits \cup {"."}
    /\ Cardinality({i \in DOMAIN cs : cs[i] = "."}) <= 1

\* datetime.datetime.strptime(text, '%Y-%m-%d %H:%M:%S') does not raise, for
\* texts whose numbers are written in full: the digits and the separators
\* are in their places and nothing follows the seconds
ParsesDate(cs) ==
    /\ Len(cs) = 19
    /\ \A i \in DOMAIN cs :
           CASE i \in {5, 8} -> cs[i] = "-"
             [] i = 11 -> cs[i] = " "
             [] i \in {14, 17} -> cs[i] = ":"
             [] OTHER -> cs[i] \in Digits

\* the POST bodies: the well-formed ones, one of them less one field, with
\* another price, or with a date_time
PostFields == {"reporter", "merchant", "price_value", "product_title", "url"}

DateTexts == {"2014-10-05 12:00:00", "2014-10-05 12:00:00.5", "yesterday"}

FullRequests ==
    {[reporter |-> r, merchant |-> m, price_value |-> "50", product_title |-> t,
      url |-> "http"] : r \in ReporterNames, m \in MerchantTitles, t \in ProductTitles}

PostRequests ==
    FullRequests \cup
    {Del([reporter |-> "jane", merchant |-> "shop/a", price_value |-> "50",
          product_title |-> "milk 1kg", url |-> "http"], f) : f \in PostFields} \cup
    {[reporter |-> "jane", merchant |-> "shop/a", price_value |-> "abc",
      product_title |-> "milk 1kg", url |-> "http"]} \cup
    {[reporter |-> "jane", merchant |-> "shop/a", price_value |-> "50",
      product_title |-> "milk 1kg", url |-> "http", date_time |-> d] : d \in DateTexts}

\* PriceReportView.post: [s, status, error, abort].  The arguments of the call
\* of PriceReport.assemble are evaluated in order; the call itself passes
\* merchant= and reporter=, which assemble does not accept, and raises
\* TypeError, which the handler does not catch (nor does it catch the
\* ValueError of float): the lines after the call are never reached.  The
\* date_time is parsed before the try block
post(s, post_data) ==
    IF "date_time" \in DOMAIN post_data /\ ~ParsesDate(TextOf(post_data.date_time))
    THEN [s |-> s, status |-> 500, error |-> "ValueError", abort |-> FALSE]
    ELSE IF "reporter" \notin DOMAIN post_data
    THEN [s |-> s, status |-> 400, error |-> "KeyError", abort |-> TRUE]
    ELSE LET s1 == acquire_plain(s, "reporters", post_data.reporter).s
         IN IF "merchant" \notin DOMAIN post_data
            THEN [s |-> s1, status |-> 400, error |-> "KeyError", abort |-> TRUE]
            ELSE LET s2 == acquire_merchant(s1, post_data.merchant).s
                 IN IF "price_value" \notin DOMAIN post_data
                    THEN [s |-> s2, status |-> 400, error |-> "KeyError", abort |-> TRUE]
                    ELSE IF ~IsDecimal(TextOf(post_data.price_value))
                    THEN [s |-> s2, status |-> 500, error |-> "ValueError", abort |-> FALSE]
                    ELSE IF "product_title" \notin DOMAIN post_data
                    THEN [s |-> s2, status |-> 400, error |-> "KeyError", abort |-> TRUE]
                    ELSE IF "url" \notin DOMAIN post_data
                    THEN [s |-> s2, status |-> 400, error |-> "KeyError", abort |-> TRUE]
                    ELSE [s |-> s2, status |-> 500, error |-> "TypeError", abort |-> FALSE]

\* the body of CategoryView.cached_data: [error, payload].  The rows are
\* sorted with a key that calls get_price() on the (product, price) tuples of
\* get_qualified_products: AttributeError when there is a tuple.  With no
\* tuple, category.get_price() is None and currency(None) raises in
\* format_currency.  No payload is ever returned
cached_data(s, ckey) ==
    IF get_qualified_products(s, ckey, Now, None) # <<>>
    THEN [error |-> "AttributeError", payload |-> <<>>]
    ELSE [error |-> "TypeError", payload |-> <<>>]


(***************************************************************************)
(* State.                                                                  *)
(*   root       the store as the open connection sees it                   *)
(*   committed  the store as of the last transaction.commit()              *)
(*   cache      category_region: the memoized payloads, by argument key    *)
(*   resp       the last operation, what it was given and its outcome      *)
(***************************************************************************)
VARIABLES root, committed, cache, resp

vars == <<root, committed, cache, resp>>

Init ==
    /\ root = EmptyStore
    /\ committed = EmptyStore
    /\ cache = EmptyMap
    /\ resp = [op |-> "init"]

Bounded(s) ==
    /\ Len(s.prod) <= MaxProducts
    /\ Len(s.rep) <= MaxReports
    /\ Len(s.merch) <= MaxMerchants

\* storage_manager.register(Product(title)) or register(Merchant(title))
Register(namespace, title) ==
    LET key == KeyOf(title)
        s0 == IF namespace = "products"
              THEN [root EXCEPT !.prod = Append(@, NewProduct(title))]
              ELSE [root EXCEPT !.merch = Append(@, NewMerchant(title))]
        instance == IF namespace = "products" THEN Len(s0.prod) ELSE Len(s0.merch)
        s1 == Collect(register(s0, namespace, key, instance), root)
    IN /\ Bounded(s1)
       /\ root' = s1
       /\ resp' = [op |-> "register", namespace |-> namespace, key |-> key,
                   present |-> Has(root, namespace, key)]
       /\ UNCHANGED <<committed, cache>>

\* Reporter.acquire(name), Merchant.acquire(title), Product.acquire(title)
Acquire(namespace, key_attr) ==
    LET a == CASE namespace = "reporters" -> acquire_plain(root, namespace, key_attr)
               [] namespace = "merchants" -> acquire_merchant(root, key_attr)
               [] namespace = "products" -> acquire_product(root, key_attr)
    IN /\ Bounded(a.s)
       /\ root' = a.s
       /\ resp' = [op |-> "acquire", namespace |-> namespace, key_attr |-> key_attr,
                   key |-> KeyOf(key_attr), instance |-> a.s[namespace][KeyOf(key_attr)],
                   created |-> a.new]
       /\ UNCHANGED <<committed, cache>>

\* PriceReport.assemble(storage, price_value, product_title, merchant_title,
\*                      reporter_name, url, date_time, uuid)
Assemble(price_value, product_title, merchant_title, reporter_name, date_time, uuid) ==
    LET a == assemble(root, price_value, product_title, merchant_title, reporter_name,
                      date_time, uuid)
        s1 == Collect(a.s, root)
    IN /\ Bounded(s1)
       /\ root' = s1
       /\ resp' = [op |-> "assemble", product_title |-> product_title, err |-> a.err,
                   key |-> a.key, stats |-> a.stats]
       /\ UNCHANGED <<committed, cache>>

\* Product.assemble(storage, title).  A lookup error is raised with the
\* product constructed from the title
ProductAssemble(title) ==
    LET a == product_assemble(root, title)
        s1 == Collect(a.s, root)
    IN /\ Bounded(s1)
       /\ root' = s1
       /\ resp' = [op |-> "product_assemble", product_title |-> title, err |-> a.err,
                   err_product |-> IF a.err = None THEN None ELSE title]
       /\ UNCHANGED <<committed, cache>>

\* report.delete_from(storage) on a stored report
ReportDeleteFrom(rid) ==
    LET d == report_delete_from(root, rid)
    IN /\ root' = Collect(d.s, root)
       /\ resp' = [op |-> "report_delete_from", key |-> RepKey(root, rid), err |-> d.err]
       /\ UNCHANGED <<committed, cache>>

\* product.delete_from(storage) on a stored product owning n reports
ProductDeleteFrom(pid) ==
    LET d == product_delete_from(root, pid)
    IN /\ root' = Collect(d.s, root)
       /\ resp' = [op |-> "product_delete_from", key |-> ProdKey(root, pid),
                   n |-> Len(root.prod[pid].reports), err |-> d.err]
       /\ UNCHANGED <<committed, cache>>

\* product.remove(report): Entity.remove on the product of a stored report
ProductRemoveReport(rid) ==
    /\ root' = Collect(ProductRemove(root, root.rep[rid].product, rid), root)
    /\ resp' = [op |-> "remove", key |-> RepKey(root, rid)]
    /\ UNCHANGED <<committed, cache>>

\* storage_manager.register(Merchant(title, location)).  The key of the
\* instance is Entity.key: Merchant sets _representation and leaves
\* _key_pattern at Entity's {title}
RegisterMerchant(title, location) ==
    LET s0 == [root EXCEPT !.merch = Append(@, [NewMerchant(title) EXCEPT
                                                     !.location = location])]
        instance == Len(s0.merch)
        s1 == Collect(register(s0, "merchants", MerchKey(s0, instance), instance), root)
    IN /\ Bounded(s1)
       /\ root' = s1
       /\ resp' = [op |-> "register_merchant", title |-> title, location |-> location,
                   key |-> MerchKey(s0, instance)]
       /\ UNCHANGED <<committed, cache>>

\* Merchant.assemble(storage, title, location): acquire by title, set the
\* location, register again
MerchantAssemble(title, location) ==
    LET a == acquire_merchant(root, title)
        s1 == register([a.s EXCEPT !.merch[a.mid].location = location],
                       "merchants", MerchKey(a.s, a.mid), a.mid)
    IN /\ Bounded(s1)
       /\ root' = s1
       /\ resp' = [op |-> "merchant_assemble", title |-> title, location |-> location,
                   key |-> MerchKey(s1, a.mid)]
       /\ UNCHANGED <<committed, cache>>

\* Merchant.patch(data, storage_manager): a field of data is absent or the
\* new value.  The merchant is registered under its new key when that key is
\* free, and the old key is deleted
merchant_patch(s, mid, data) ==
    LET old_key == MerchKey(s, mid)
        s1 == [s EXCEPT !.merch[mid].title = IF data.title # <<>> THEN data.title[1] ELSE @,
                        !.merch[mid].location =
                            IF data.location # <<>> THEN data.location[1] ELSE @]
    IN IF old_key # MerchKey(s1, mid)
       THEN delete_key(register(s1, "merchants", MerchKey(s1, mid), mid),
                       "merchants", old_key)
       ELSE s1

\* merchant.patch(data, storage) on a stored merchant
MerchantPatch(mid, data) ==
    /\ root' = Collect(merchant_patch(root, mid, data), root)
    /\ resp' = [op |-> "patch", instance |-> mid, old_key |-> MerchKey(root, mid),
                key |-> MerchKey(merchant_patch(root, mid, data), mid)]
    /\ UNCHANGED <<committed, cache>>

\* product.get_price(date_time): the normalized price, no location
GetPrice(pid, date_time) ==
    /\ resp' = [op |-> "get_price", key |-> ProdKey(root, pid), date_time |-> date_time,
                price |-> get_price(root, pid, date_time, None)]
    /\ UNCHANGED <<root, committed, cache>>

\* category.get_price(date_time, prices, cheap)
CategoryGetPrice(ckey, date_time, prices, cheap) ==
    /\ resp' = [op |-> "category_get_price", key |-> ckey, date_time |-> date_time,
                prices |-> prices, cheap |-> cheap,
                qualified |-> get_prices(root, ckey, date_time, None),
                price |-> category_get_price(root, ckey, date_time, prices, cheap, None)]
    /\ UNCHANGED <<root, committed, cache>>

\* get_delta(base_price, current_price, relative)
GetDelta(base_price, current_price, relative) ==
    /\ resp' = [op |-> "get_delta", base_price |-> base_price,
                current_price |-> current_price, relative |-> relative,
                delta |-> get_delta(base_price, current_price, relative)]
    /\ UNCHANGED <<root, committed, cache>>

\* product.add(report) and product.remove(report), for any report instance
AddReport(pid, rid) ==
    /\ root' = ProductAdd(root, pid, rid)
    /\ resp' = [op |-> "add", product |-> pid, instance |-> rid]
    /\ UNCHANGED <<committed, cache>>

RemoveReport(pid, rid) ==
    /\ root' = ProductRemove(root, pid, rid)
    /\ resp' = [op |-> "remove_instance", product |-> pid, instance |-> rid]
    /\ UNCHANGED <<committed, cache>>

\* product.category.remove_product(product), for a stored product that has a
\* category
CategoryRemoveProduct(pid) ==
    /\ root.prod[pid].category # None
    /\ root' = Collect(remove_product(root, root.prod[pid].category, pid), root)
    /\ resp' = [op |-> "remove_product", key |-> ProdKey(root, pid)]
    /\ UNCHANGED <<committed, cache>>

\* product.get_last_report(date_time, merchant), merchant 0 for none, and
\* product.get_last_reported_price(date_time, normalized)
GetLastReport(pid, date_time, merchant, normalized) ==
    /\ resp' = [op |-> "get_last_report", key |-> ProdKey(root, pid),
                date_time |-> date_time, merchant |-> merchant,
                normalized |-> normalized,
                report |-> get_last_report(root, pid, date_time, merchant),
                price |-> get_last_reported_price(root, pid, date_time, normalized)]
    /\ UNCHANGED <<root, committed, cache>>

\* product.get_price(date_time, location=location)
GetPriceAt(pid, date_time, location) ==
    /\ resp' = [op |-> "get_price_at", key |-> ProdKey(root, pid),
                date_time |-> date_time, normalized |-> TRUE, location |-> location,
                price |-> get_price(root, pid, date_time, location)]
    /\ UNCHANGED <<root, committed, cache>>

\* product.get_price_delta(date_time, relative)
GetPriceDelta(pid, date_time, relative) ==
    /\ resp' = [op |-> "get_price_delta", key |-> ProdKey(root, pid),
                date_time |-> date_time, relative |-> relative,
                location |-> None,
                call |-> get_price_delta(root, pid, date_time, relative)]
    /\ UNCHANGED <<root, committed, cache>>

\* category.get_price_delta(date_time, relative)
CategoryGetPriceDelta(ckey, date_time, relative) ==
    /\ resp' = [op |-> "category_get_price_delta", key |-> ckey,
                date_time |-> date_time, relative |-> relative,
                location |-> None,
                call |-> category_get_price_delta(root, ckey, date_time, relative, None)]
    /\ UNCHANGED <<root, committed, cache>>

\* category.get_qualified_products(date_time): the (product, price) tuples,
\* a price being kept doubled
GetQualifiedProducts(ckey, date_time) ==
    /\ resp' = [op |-> "get_qualified_products", key |-> ckey, date_time |-> date_time,
                tuples |-> get_qualified_products(root, ckey, date_time, None)]
    /\ UNCHANGED <<root, committed, cache>>

\* keyword_lookup(string_, data_map)
KeywordLookup(string_, data_map) ==
    /\ resp' = [op |-> "keyword_lookup", string_ |-> string_, data_map |-> data_map,
                match |-> keyword_lookup(TextOf(string_), data_map)]
    /\ UNCHANGED <<root, committed, cache>>

\* PriceReport.acquire(key, storage): the body raises NotImplementedError
ReportAcquire(key) ==
    /\ resp' = [op |-> "report_acquire", key |-> key, err |-> "NotImplementedError"]
    /\ UNCHANGED <<root, committed, cache>>

\* POST on the PriceReport collection.  transaction.abort() throws away what
\* the connection changed since the last commit; an exception the view does
\* not catch leaves the transaction as it is and answers 500
Post(post_data) ==
    LET p == post(root, post_data)
    IN /\ Bounded(p.s)
       /\ root' = IF p.abort THEN committed ELSE Collect(p.s, root)
       /\ resp' = [op |-> "post", request |-> post_data, status |-> p.status,
                   error |-> p.error, abort |-> p.abort]
       /\ UNCHANGED <<committed, cache>>

\* DELETE on a stored PriceReport: delete_from, then transaction.commit().
\* A commit is taken to write the store as the connection sees it
DeleteView(rid) ==
    LET d == report_delete_from(root, rid)
    IN /\ root' = Collect(d.s, root)
       /\ committed' = IF d.err = None THEN Collect(d.s, root) ELSE committed
       /\ resp' = [op |-> "delete", key |-> RepKey(root, rid), err |-> d.err,
                   status |-> IF d.err = None THEN 200 ELSE 500]
       /\ UNCHANGED cache

\* GET on a stored ProductCategory: cached_data through
\* category_region.cache_on_arguments(); the key is the text of the argument,
\* the category's title, and a value is stored when the body returns one
CategoryGet(ckey) ==
    IF ckey \in DOMAIN cache
    THEN /\ resp' = [op |-> "category_get", category |-> ckey, status |-> 200,
                     error |-> None]
         /\ UNCHANGED <<root, committed, cache>>
    ELSE /\ cache' = IF cached_data(root, ckey).error = None
                     THEN Put(cache, ckey, cached_data(root, ckey).payload)
                     ELSE cache
         /\ resp' = [op |-> "category_get", category |-> ckey,
                     status |-> IF cached_data(root, ckey).error = None THEN 200 ELSE 500,
                     error |-> cached_data(root, ckey).error]
         /\ UNCHANGED <<root, committed>>

\* GET of the view named refresh; the target is the root or a collection.
\* self.root[...] is StorageManager.__getitem__: KeyError for a namespace
\* that is not there yet
Refresh(target) ==
    /\ cache' = IF "categories" \in root.ns /\ target = "categories" THEN EmptyMap
                ELSE cache
    /\ resp' = [op |-> "refresh", target |-> target,
                status |-> IF "categories" \notin root.ns THEN 500
                           ELSE IF target = "categories" THEN 202 ELSE 405]
    /\ UNCHANGED <<root, committed>>

\* the body of RootView.get for a context that is the root or a collection:
\* [status, error, allow].  Each comparison evaluates self.root[namespace],
\* StorageManager.__getitem__, which raises KeyError for a namespace that no
\* register has created; the view does not catch it
root_get(s, target) ==
    IF "categories" \notin s.ns THEN [status |-> 500, error |-> "KeyError", allow |-> <<>>]
    ELSE IF target = "categories" THEN [status |-> 405, error |-> None, allow |-> <<>>]
    ELSE IF "reports" \notin s.ns THEN [status |-> 500, error |-> "KeyError", allow |-> <<>>]
    ELSE IF target = "reports" THEN [status |-> 405, error |-> None, allow |-> <<"POST">>]
    ELSE IF "products" \notin s.ns THEN [status |-> 500, error |-> "KeyError", allow |-> <<>>]
    ELSE IF target = "products" THEN [status |-> 405, error |-> None, allow |-> <<>>]
    ELSE [status |-> 200, error |-> None, allow |-> <<>>]

\* GET on the root or on a collection, answered by RootView.get
RootGet(target) ==
    /\ resp' = [op |-> "root_get", target |-> target,
                status |-> root_get(root, target).status,
                error |-> root_get(root, target).error,
                allow |-> root_get(root, target).allow]
    /\ UNCHANGED <<root, committed, cache>>

(***************************************************************************)
(* Spec: the operations of models.py that create and register.             *)
(***************************************************************************)
\* the titles of the instances that are registered as they are constructed
BareTitles(namespace) ==
    IF namespace = "products" THEN {"milk", "milk 1kg"} ELSE {"shop/a"}

Next ==
    \/ \E namespace \in {"products", "merchants"} :
           \E title \in BareTitles(namespace) : Register(namespace, title)
    \/ \E namespace \in {"reporters", "merchants"} :
           \E key_attr \in (IF namespace = "reporters" THEN ReporterNames
                            ELSE MerchantTitles) :
               Acquire(namespace, key_attr)
    \/ \E price_value \in Prices, product_title \in ProductTitles,
          merchant_title \in MerchantTitles, reporter_name \in ReporterNames :
           Assemble(price_value, product_title, merchant_title, reporter_name,
                    Absent, Absent)
    \/ \E title \in ProductTitles : ProductAssemble(title)

Spec == Init /\ [][Next]_vars

(***************************************************************************)
(* SpecDelete: reports are assembled and deleted, through the model and    *)
(* through the DELETE view.                                                *)
(***************************************************************************)
ClassifiedTitles == {"milk 1kg", "Milk 0.5kg"}

NextDelete ==
    \/ \E price_value \in Prices, product_title \in ClassifiedTitles,
          merchant_title \in MerchantTitles, reporter_name \in ReporterNames :
           Assemble(price_value, product_title, merchant_title, reporter_name,
                    Absent, Absent)
    \/ \E rid \in Range(root.reports) : ReportDeleteFrom(rid)
    \/ \E pid \in Range(root.products) : ProductDeleteFrom(pid)
    \/ \E rid \in Range(root.reports) : ProductRemoveReport(rid)
    \/ \E rid \in Range(root.reports) : DeleteView(rid)

SpecDelete == Init /\ [][NextDelete]_vars

(***************************************************************************)
(* SpecUuid: reports are assembled with and without a uuid of the          *)
(* caller's, as load_fixtures does for fixtures that carry one.            *)
(***************************************************************************)
\* the uuid a caller passes; a generated one is the report's index
GivenUuids == {<<101>>}

NextUuid ==
    \/ \E price_value \in Prices, product_title \in ClassifiedTitles,
          merchant_title \in MerchantTitles, reporter_name \in ReporterNames,
          uuid \in {Absent} \cup GivenUuids :
           Assemble(price_value, product_title, merchant_title, reporter_name,
                    Absent, uuid)
    \/ \E key \in DOMAIN root.reports \cup {uuid[1] : uuid \in GivenUuids} :
           ReportAcquire(key)

SpecUuid == Init /\ [][NextUuid]_vars

(***************************************************************************)
(* SpecMerchant: merchants with a location are constructed and stored.     *)
(***************************************************************************)
LocatedTitles == {"CoopMart", "shop/a", "shop b"}

Locations == {"Springfield", "Shelbyville"}

NextMerchant ==
    \/ \E title \in LocatedTitles, location \in Locations :
           RegisterMerchant(title, location)
    \/ \E title \in LocatedTitles, location \in Locations :
           MerchantAssemble(title, location)
    \/ \E mid \in Range(root.merchants),
          title \in {Absent} \cup {<<t>> : t \in LocatedTitles},
          location \in {Absent} \cup {<<l>> : l \in Locations} :
           MerchantPatch(mid, [title |-> title, location |-> location])

SpecMerchant == Init /\ [][NextMerchant]_vars

(***************************************************************************)
(* SpecPrice: reports of several days and prices are assembled, and the    *)
(* price of a product is asked for at a query time.                        *)
(***************************************************************************)
\* the days of the reports: 8, 7 and 6 days before Now
Dates == {<<Now - 8>>, <<Now - 7>>, <<Now - 6>>}

DatedPrices == {50, 70}

\* the query times: Now, and a day with reports before, at and after it
QueryTimes == {Now, Now - 7}

\* the prices argument of ProductCategory.get_price, in thousandths
PriceLists == {<<>>, <<10000, 20000, 30000>>, <<30000, 10000, 20005, 10000>>}

NextPrice ==
    \/ \E price_value \in DatedPrices, merchant_title \in MerchantTitles,
          reporter_name \in ReporterNames, date_time \in Dates :
           Assemble(price_value, "Milk 0.5kg", merchant_title, reporter_name,
                    date_time, Absent)
    \/ \E pid \in Range(root.products), date_time \in QueryTimes :
           GetPrice(pid, date_time)
    \/ \E ckey \in DOMAIN root.categories, date_time \in QueryTimes,
          prices \in PriceLists, cheap \in BOOLEAN :
           CategoryGetPrice(ckey, date_time, prices, cheap)
    \/ \E pid \in Range(root.products), date_time \in QueryTimes,
          merchant \in {0} \cup Range(root.merchants), normalized \in BOOLEAN :
           GetLastReport(pid, date_time, merchant, normalized)

SpecPrice == Init /\ [][NextPrice]_vars

(***************************************************************************)
(* SpecDelta: get_delta is applied to absent, int and float arguments.     *)
(***************************************************************************)
Numbers == [float : BOOLEAN, v : {0, 60, 100, 150}]

DeltaArguments == {Absent} \cup {<<x>> : x \in Numbers}

NextDelta ==
    \E base_price \in DeltaArguments, current_price \in DeltaArguments,
       relative \in BOOLEAN :
        GetDelta(base_price, current_price, relative)

SpecDelta == Init /\ [][NextDelta]_vars

(***************************************************************************)
(* SpecContainer: add and remove on the inner container of one entity, a   *)
(* Product and its reports.  The instances to add exist beside the store;  *)
(* two instances may have the same key.                                    *)
(***************************************************************************)
\* the uuids of the report instances, by instance
InstanceUuids == <<101, 101, 102, 102, 103, 103>>

InitContainer ==
    /\ root = [EmptyStore EXCEPT
                   !.prod = <<NewProduct("milk 1kg")>>,
                   !.rep = [rid \in DOMAIN InstanceUuids |->
                               [uuid |-> InstanceUuids[rid], product |-> 1, merchant |-> 0,
                                reporter |-> "jane", price_value |-> 50,
                                normalized_price_value |-> 50, date_time |-> Now]]]
    /\ committed = EmptyStore
    /\ cache = EmptyMap
    /\ resp = [op |-> "init"]

NextContainer ==
    \/ \E rid \in DOMAIN root.rep : AddReport(1, rid)
    \/ \E rid \in DOMAIN root.rep : RemoveReport(1, rid)

SpecContainer == InitContainer /\ [][NextContainer]_vars

(***************************************************************************)
(* SpecFrame: reports are assembled, reports and products are deleted and  *)
(* products are taken out of their category.                               *)
(***************************************************************************)
NextFrame ==
    \/ \E price_value \in DatedPrices, product_title \in ClassifiedTitles,
          reporter_name \in ReporterNames :
           Assemble(price_value, product_title, "shop/a", reporter_name, Absent, Absent)
    \/ \E rid \in Range(root.reports) : ReportDeleteFrom(rid)
    \/ \E pid \in Range(root.products) : ProductDeleteFrom(pid)
    \/ \E pid \in Range(root.products) : CategoryRemoveProduct(pid)

SpecFrame == Init /\ [][NextFrame]_vars

(***************************************************************************)
(* SpecQualified: reports are assembled, some with the price 0, and the    *)
(* qualified products of a category and the price deltas of a product and  *)
(* of a category are asked for.                                            *)
(***************************************************************************)
ReportedPrices == {0, 50}

NextQualified ==
    \/ \E price_value \in ReportedPrices, product_title \in ClassifiedTitles,
          merchant_title \in MerchantTitles, reporter_name \in ReporterNames :
           Assemble(price_value, product_title, merchant_title, reporter_name,
                    Absent, Absent)
    \/ \E ckey \in DOMAIN root.categories, date_time \in QueryTimes :
           GetQualifiedProducts(ckey, date_time)
    \/ \E pid \in Range(root.products), date_time \in QueryTimes, relative \in BOOLEAN :
           GetPriceDelta(pid, date_time, relative)
    \/ \E ckey \in DOMAIN root.categories, date_time \in QueryTimes,
          relative \in BOOLEAN :
           CategoryGetPriceDelta(ckey, date_time, relative)

SpecQualified == Init /\ [][NextQualified]_vars

(***************************************************************************)
(* SpecLookup: keyword_lookup applied to texts and to category trees of    *)
(* depth up to three, whose nodes have or lack the keyword, stopword and   *)
(* sub fields.                                                             *)
(***************************************************************************)
DataMaps ==
    LET Field(name, value) == IF value = <<>> THEN <<>> ELSE name :> value[1]
        Node(keyword, stopword, sub) ==
            Field("keyword", keyword) @@ Field("stopword", stopword)
                @@ Field("sub", IF sub = <<>> THEN <<>> ELSE <<sub>>)
        Keywords == {<<>>, <<"milk">>, <<"milk, soy">>, <<"milk 1kg">>}
        Stopwords == {<<>>, <<"soy">>, <<"tea, 1kg">>}
        Leaves == {Node(k, st, <<>>) : k \in Keywords, st \in Stopwords}
        Plain == {Node(<<"milk">>, <<>>, <<>>), Node(<<"soy">>, <<>>, <<>>),
                  Node(<<"milk 1kg">>, <<"soy">>, <<>>)}
    IN Leaves
       \cup {Node(k, st, <<c>>) : k \in {<<>>, <<"milk">>}, st \in {<<>>, <<"soy">>},
                                   c \in Leaves}
       \cup {Node(<<>>, <<>>, <<c, d>>) : c \in Plain, d \in Plain}
       \cup {Node(<<>>, <<>>, <<Node(k, <<>>, <<c>>)>>) :
                 k \in {<<>>, <<"1kg">>}, c \in Plain}

NextLookup ==
    \E string_ \in {"milk 1kg", "soy milk 1kg", "tea 1kg", "milk", "soy", "1kg"},
       data_map \in DataMaps :
        KeywordLookup(string_, data_map)

SpecLookup == Init /\ [][NextLookup]_vars

(***************************************************************************)
(* SpecIntegrity: the three operations that create and delete reports and  *)
(* products, and link products with merchants.                             *)
(***************************************************************************)
NextIntegrity ==
    \/ \E price_value \in Prices, product_title \in ClassifiedTitles,
          merchant_title \in MerchantTitles, reporter_name \in ReporterNames :
           Assemble(price_value, product_title, merchant_title, reporter_name,
                    Absent, Absent)
    \/ \E rid \in Range(root.reports) : ReportDeleteFrom(rid)
    \/ \E pid \in Range(root.products) : ProductDeleteFrom(pid)

SpecIntegrity == Init /\ [][NextIntegrity]_vars

(***************************************************************************)
(* SpecLocation: merchants are given locations, reports link them to a     *)
(* product in either order, and the price at a location is asked for.      *)
(***************************************************************************)
NextLocation ==
    \/ \E title \in MerchantTitles, location \in Locations :
           MerchantAssemble(title, location)
    \/ \E price_value \in DatedPrices, merchant_title \in MerchantTitles,
          reporter_name \in ReporterNames :
           Assemble(price_value, "milk 1kg", merchant_title, reporter_name,
                    Absent, Absent)
    \/ \E pid \in Range(root.products), location \in Locations :
           GetPriceAt(pid, Now, location)

SpecLocation == Init /\ [][NextLocation]_vars

(***************************************************************************)
(* SpecHttp: the views, on a store loaded from fixtures and committed.     *)
(***************************************************************************)
\* StorageManager.load_fixtures, for fixtures of PriceReport
RECURSIVE load_fixtures(_, _)
load_fixtures(s, fixture_list) ==
    IF fixture_list = <<>> THEN s
    ELSE load_fixtures(assemble(s, fixture_list[1].price_value,
                                fixture_list[1].product_title,
                                fixture_list[1].merchant_title,
                                fixture_list[1].reporter_name, Absent, Absent).s,
                       Tail(fixture_list))

Fixtures ==
    [price_value : Prices, product_title : ClassifiedTitles,
     merchant_title : MerchantTitles, reporter_name : ReporterNames]

FixtureLists ==
    {<<>>} \cup {<<f>> : f \in Fixtures} \cup {<<f, g>> : f \in Fixtures, g \in Fixtures}

InitHttp ==
    /\ \E fixture_list \in FixtureLists :
           root = Collect(load_fixtures(EmptyStore, fixture_list), EmptyStore)
    /\ committed = root
    /\ cache = EmptyMap
    /\ resp = [op |-> "init"]

NextHttp ==
    \/ \E post_data \in PostRequests : Post(post_data)
    \/ \E rid \in Range(root.reports) : DeleteView(rid)
    \/ \E ckey \in DOMAIN root.categories : CategoryGet(ckey)
    \/ \E target \in {"root"} \cup root.ns : Refresh(target)
    \/ \E target \in {"root"} \cup root.ns : RootGet(target)

SpecHttp == InitHttp /\ [][NextHttp]_vars

(***************************************************************************)
(* The claims.  A step's operation is resp'.op; root is the store before   *)
(* it and root' the store after it.                                        *)
(***************************************************************************)
\* the POST body carries every required field
Complete(post_data) == PostFields \subseteq DOMAIN post_data

\* the title classifies to a category and to a package
Classifies(title) ==
    /\ get_category_key(title) # CategoryLookupError
    /\ get_package_key(title) # PackageLookupError

\* the price of the POST body is a decimal and its date_time, if it has one,
\* is a date, with or without a fractional-seconds suffix
Parses(post_data) ==
    /\ "price_value" \in DOMAIN post_data => IsDecimal(TextOf(post_data.price_value))
    /\ "date_time" \in DOMAIN post_data
           => ParsesDate(Split(TextOf(post_data.date_time), <<".">>)[1])

\* C1: a POST that carries every required field, with a parseable price and a
\* title that classifies, for a product not yet stored, is committed: the
\* committed store holds exactly one report and one product more than the store
\* before it, and the answer is 200 with the new report's key and the flags.
C1_PostCommits ==
    [][(/\ resp'.op = "post"
        /\ Complete(resp'.request)
        /\ Parses(resp'.request)
        /\ Classifies(resp'.request.product_title)
        /\ ~Has(root, "products", KeyOf(resp'.request.product_title)))
       => /\ resp'.status = 200
          /\ committed' = root'
          /\ Cardinality(DOMAIN committed'.reports)
                 = Cardinality(DOMAIN root.reports) + 1
          /\ DOMAIN committed'.products
                 = DOMAIN root.products \cup {KeyOf(resp'.request.product_title)}]_vars

\* C2: a POST that lacks a required field, or whose title does not classify,
\* aborts the transaction and answers 400, and the store is as it was before
\* the request: the reporter and the merchant are not left registered.
C2_PostRejects ==
    [][(/\ resp'.op = "post"
        /\ \/ ~Complete(resp'.request)
           \/ ~Classifies(resp'.request.product_title))
       => /\ resp'.status = 400
          /\ resp'.abort
          /\ root' = root]_vars

\* C3: after Product.delete_from on a stored product owning n reports, none of
\* the n reports is left in 'reports', the product's report collection is
\* empty, the product is in no container of its category or of its merchants,
\* and its key is absent from 'products'.
C3_ProductDeleteCascades ==
    [][(resp'.op = "product_delete_from" /\ resp'.err = None)
       => LET pid == root.products[resp'.key]
          IN /\ \A i \in DOMAIN root.prod[pid].reports :
                    RepKey(root, root.prod[pid].reports[i]) \notin DOMAIN root'.reports
             /\ pid \in Live(root').P => root'.prod[pid].reports = <<>>
             /\ \A c \in DOMAIN root'.cat : pid \notin Range(root'.cat[c].products)
             /\ \A m \in Live(root').M : pid \notin Range(root'.merch[m].products)
             /\ resp'.key \notin DOMAIN root'.products]_vars

\* C4: StorageManager.register of an instance whose key is present in its
\* namespace changes nothing: the key maps to the instance stored first, and
\* no namespace, this one or another, has changed.
C4_RegisterIdempotent ==
    [][(resp'.op = "register" /\ resp'.present)
       => /\ root'[resp'.namespace][resp'.key] = root[resp'.namespace][resp'.key]
          /\ DOMAIN root'[resp'.namespace] = DOMAIN root[resp'.namespace]
          /\ root'.ns = root.ns
          /\ \A namespace \in Namespaces : root'[namespace] = root[namespace]]_vars

\* C4 happens: register was given a fresh Product whose key holds an assembled one
C4_Witness ==
    /\ resp.op = "register"
    /\ resp.present
    /\ resp.namespace = "products"
    /\ root.prod[root.products[resp.key]].category # None

\* C5: when PriceReport.assemble or Product.assemble fails with
\* CategoryLookupError or PackageLookupError, the store is exactly as before
\* the call.
C5_FailedAssembleLeavesStore ==
    [][(/\ resp'.op \in {"assemble", "product_assemble"}
        /\ resp'.err \in {CategoryLookupError, PackageLookupError})
       => root' = root]_vars

\* C6: the flags of a successful PriceReport.assemble tell what was created:
\* new_product, new_category and new_package are true exactly when the product
\* key, the classified category key and the classified package key were absent
\* from their namespaces before the call.
C6_StatsFlagsExact ==
    [][(resp'.op = "assemble" /\ resp'.err = None /\ Classifies(resp'.product_title))
       => /\ resp'.stats[1] = ~Has(root, "products", KeyOf(resp'.product_title))
          /\ resp'.stats[2]
                 = ~Has(root, "categories", KeyOf(get_category_key(resp'.product_title)))
          /\ resp'.stats[3]
                 = ~Has(root, "packages", KeyOf(get_package_key(resp'.product_title)))]_vars

\* the report of key `key` is stored and its product lists it
Listed(s, key) ==
    /\ key \in DOMAIN s.reports
    /\ RepIdx(s, s.prod[s.rep[s.reports[key]].product].reports, key) # {}

C8_DeleteToleratesAbsentBackReference ==
    [][(/\ resp'.op = "report_delete_from"
        /\ resp'.key \in DOMAIN root.reports
        /\ ~Listed(root, resp'.key))
       => /\ resp'.err = None
          /\ resp'.key \notin DOMAIN root'.reports]_vars

\* C9: a GET of a stored ProductCategory answers with a payload, and the cache
\* then holds the payload for the category, to be answered until a refresh.
C9_CategoryGetCaches ==
    [][resp'.op = "category_get"
       => /\ resp'.status = 200
          /\ resp'.category \in DOMAIN cache']_vars

\* C10: refresh addressed to the ProductCategory collection empties the cache
\* and answers 202; addressed to any other target it answers 405 and leaves
\* the cache; in both cases the store is unchanged.
C10_RefreshAnswers ==
    [][resp'.op = "refresh"
       => /\ resp'.target = "categories" => resp'.status = 202 /\ cache' = EmptyMap
          /\ resp'.target # "categories" => resp'.status = 405 /\ cache' = cache
          /\ root' = root /\ committed' = committed]_vars

\* C11: in every reachable store, one with nothing registered included,
\* RootView.get answers a GET on the root with 200 and an empty context, and a
\* GET on the ProductCategory, Product or PriceReport collection with 405,
\* which for the PriceReport collection allows POST.
C11_RootGetAnswers ==
    [][resp'.op = "root_get"
       => /\ resp'.target = "root" => resp'.status = 200
          /\ resp'.target \in {"categories", "products", "reports"}
                 => resp'.status = 405
          /\ resp'.target = "reports" => resp'.allow = <<"POST">>]_vars

\* C12: Entity.acquire fetches or creates.  When the derived key is in the
\* namespace it returns the stored instance with created = false and the store
\* is unchanged; otherwise it registers one new instance, with default fields,
\* under that key and returns it with created = true, and nothing else
\* changes.  A second acquire with the same argument would return the same
\* instance with created = false and leave the store.
C12_AcquireFetchesOrCreates ==
    [][resp'.op = "acquire"
       => LET namespace == resp'.namespace
              key == resp'.key
          IN /\ Has(root, namespace, key)
                    => /\ ~resp'.created
                       /\ resp'.instance = root[namespace][key]
                       /\ root' = root
             /\ ~Has(root, namespace, key)
                    => /\ resp'.created
                       /\ root'.ns = root.ns \cup {namespace}
                       /\ root'[namespace] = Put(root[namespace], key, resp'.instance)
                       /\ \A other \in Namespaces \ {namespace} : root'[other] = root[other]
                       /\ root'.prod = root.prod /\ root'.rep = root.rep
                       /\ root'.cat = root.cat /\ root'.typ = root.typ
                       /\ namespace = "merchants"
                              => /\ resp'.instance \notin Live(root).M
                                 /\ root'.merch = Append(root.merch, NewMerchant(resp'.key_attr))
                       /\ namespace = "reporters" => root'.merch = root.merch
             /\ namespace = "merchants"
                    => /\ acquire_merchant(root', resp'.key_attr).s = root'
                       /\ acquire_merchant(root', resp'.key_attr).mid = resp'.instance
                       /\ ~acquire_merchant(root', resp'.key_attr).new
             /\ namespace = "reporters"
                    => /\ acquire_plain(root', namespace, resp'.key_attr).s = root'
                       /\ ~acquire_plain(root', namespace, resp'.key_attr).new]_vars

\* C12 happens: acquire was given the title of a merchant that already sells
\* a product and returned it, created = false
C12_Witness ==
    /\ resp.op = "acquire"
    /\ resp.namespace = "merchants"
    /\ ~resp.created
    /\ root.merch[resp.instance].products # <<>>

\* C13: reports are never deduplicated.  Every successful PriceReport.assemble,
\* also one whose arguments equal those of an earlier call, adds exactly one
\* key to 'reports' and exactly one entry to the product's report collection;
\* PriceReport.acquire always fails and leaves the store.
C13_ReportsNeverDeduplicated ==
    [][/\ (resp'.op = "assemble" /\ resp'.err = None)
           => LET key == KeyOf(resp'.product_title)
                  before == IF Has(root, "products", key)
                            THEN Len(root.prod[root.products[key]].reports) ELSE 0
              IN /\ resp'.key \notin DOMAIN root.reports
                 /\ DOMAIN root'.reports = DOMAIN root.reports \cup {resp'.key}
                 /\ Len(root'.prod[root'.products[key]].reports) = before + 1
       /\ resp'.op = "report_acquire"
           => resp'.err = "NotImplementedError" /\ root' = root]_vars

\* C14: the key of a Merchant is its title and its location joined by '-',
\* every '/' replaced by '-' (CoopMart at Springfield: CoopMart-Springfield),
\* so that a registered Merchant of a title is stored with its location also
\* when a merchant of the same title and another location is stored already.
C14_MerchantKeyHasLocation ==
    [][resp'.op = "register_merchant"
       => /\ TextOf(resp'.key)
                 = ReplaceSlash(TextOf(resp'.title) \o <<"-">> \o TextOf(resp'.location))
          /\ \E key \in DOMAIN root'.merchants :
                 /\ root'.merch[root'.merchants[key]].title = resp'.title
                 /\ root'.merch[root'.merchants[key]].location = resp'.location]_vars

\* C15: a POST whose price_value is not a decimal, or whose date_time is not
\* a date, answers with a client error, aborts the transaction and leaves the
\* store as it was; a date_time with a fractional-seconds suffix is accepted
\* as the date before the suffix, it raises no ValueError.
C15_PostRejectsUnparseable ==
    [][resp'.op = "post"
       => /\ ~Parses(resp'.request)
                 => /\ resp'.status \in 400..499
                    /\ resp'.abort
                    /\ root' = root
          /\ Parses(resp'.request) => resp'.error # "ValueError"]_vars

\* no keyword of the configured categories occurs in the title
NoKeyword(title) == ~IsIn(TextOf(MilkNode.keyword), Lower(TextOf(title)))

\* the title has the keyword of a category and none of its stopwords
OneCategory(title) ==
    /\ IsIn(TextOf(MilkNode.keyword), Lower(TextOf(title)))
    /\ ~IsIn(TextOf(MilkNode.stopword), Lower(TextOf(title)))

\* no synonym of the configured packages occurs in the title
NoSynonym(title) ==
    \A n \in DOMAIN PackageData : \A j \in DOMAIN PackageData[n].synonyms :
        ~IsIn(TextOf(PackageData[n].synonyms[j]), TextOf(title))

\* C16: Product.assemble for a title with no configured category keyword fails
\* with CategoryLookupError carrying the product of that title; for a title
\* of a category with no configured package synonym it fails with
\* PackageLookupError carrying the product; either way the store is as it was,
\* no product with a default category or package has been created.
C16_AssembleLookupErrors ==
    [][resp'.op = "product_assemble"
       => /\ NoKeyword(resp'.product_title)
                 => /\ resp'.err = CategoryLookupError
                    /\ resp'.err_product = resp'.product_title
                    /\ root' = root
          /\ (OneCategory(resp'.product_title) /\ NoSynonym(resp'.product_title))
                 => /\ resp'.err = PackageLookupError
                    /\ resp'.err_product = resp'.product_title
                    /\ root' = root]_vars

\* C16 happens: on a store holding classified products, Product.assemble of
\* 'milk' has failed for want of a package
C16_Witness ==
    /\ resp.op = "product_assemble"
    /\ resp.product_title = "milk"
    /\ resp.err = PackageLookupError
    /\ "categories" \in root.ns
    /\ ~Has(root, "products", "milk")

\* the reports of the product dated at or before t and less than
\* REPORT_LIFETIME before t
InWindow(s, pid, t) ==
    {r \in Range(s.prod[pid].reports) :
         s.rep[r].date_time <= t /\ s.rep[r].date_time > t - REPORT_LIFETIME}

\* the reports of the product dated at or before t, and the latest of them
UpTo(s, pid, t) == {r \in Range(s.prod[pid].reports) : s.rep[r].date_time <= t}

Latest(s, pid, t) ==
    {r \in UpTo(s, pid, t) :
         \A q \in UpTo(s, pid, t) : s.rep[q].date_time <= s.rep[r].date_time}

OrderStat(list, k) ==
    CHOOSE x \in Range(list) :
        /\ Cardinality({i \in DOMAIN list : list[i] < x}) < k
        /\ Cardinality({i \in DOMAIN list : list[i] <= x}) >= k

\* the list ProductCategory.get_price works on: the prices it was given, or
\* the prices of the qualified products
PriceList(r) == IF r.prices # <<>> THEN r.prices ELSE r.qualified

\* C18: ProductCategory.get_price returns the median of the qualified price
\* list, rounded to two decimals, in default mode, and the least price of the
\* list in cheap mode; for an empty list it returns no value in both modes.
\* For [10, 20, 30] the median is 20 and the minimum 10.
C18_CategoryPrice ==
    [][resp'.op = "category_get_price"
       => LET list == PriceList(resp')
              n == Len(list)
              median2 == OrderStat(list, (n + 1) \div 2) + OrderStat(list, n \div 2 + 1)
          IN /\ n = 0 => resp'.price = <<>>
             /\ (n > 0 /\ resp'.cheap)
                    => /\ resp'.price[1] \in Range(list)
                       /\ \A i \in DOMAIN list : resp'.price[1] <= list[i]
             /\ (n > 0 /\ ~resp'.cheap)
                    => /\ resp'.price[1] % 10 = 0
                       /\ 2 * resp'.price[1] - median2 \in -10..10
             /\ list = <<10000, 20000, 30000>>
                    => resp'.price = IF resp'.cheap THEN <<10000>> ELSE <<20000>>]_vars

\* C18 happens: the category has one qualified product and is asked for the
\* median of four prices, whose two middle ones differ
C18_Witness ==
    /\ resp.op = "category_get_price"
    /\ ~resp.cheap
    /\ Len(resp.prices) = 4
    /\ resp.qualified # <<>>
    /\ resp.price = <<15000>>

\* C19: for a category with n >= 1 qualifying products, cached_data returns n
\* product rows ranked 1..n in ascending order of price, and flags as median
\* the row of rank (n+1)/2 when n is odd, the rows of ranks n/2 and n/2+1 when
\* n is even, and no other row.
C19_RankedRows ==
    [][(/\ resp'.op = "category_get"
        /\ resp'.category \notin DOMAIN cache
        /\ get_qualified_products(root, resp'.category, Now, None) # <<>>)
       => LET n == Len(get_qualified_products(root, resp'.category, Now, None))
              rows == cached_data(root, resp'.category).payload
          IN /\ cached_data(root, resp'.category).error = None
             /\ Len(rows) = n
             /\ \A i \in DOMAIN rows :
                    /\ rows[i].rank = i
                    /\ i < n => rows[i].price <= rows[i + 1].price
                    /\ rows[i].median <=> i \in (IF n % 2 = 1 THEN {(n + 1) \div 2}
                                                 ELSE {n \div 2, n \div 2 + 1})]_vars

\* C20: get_delta(base, current, relative) returns current - base when
\* relative is false and the exact quotient (current - base) / base when it is
\* true, for every pair of numbers: get_delta(100, 150, true) is 0.5 and
\* get_delta(100, 150, false) is 50; it returns 0 when base or current is
\* absent.
C20_DeltaExact ==
    [][resp'.op = "get_delta"
       => LET base == resp'.base_price
              current == resp'.current_price
              delta == resp'.delta
          IN /\ delta.error = None
             /\ (base = Absent \/ current = Absent) => delta.num = 0
             /\ (base # Absent /\ current # Absent /\ ~resp'.relative)
                    => delta.num = (current[1].v - base[1].v) * delta.den
             /\ (base # Absent /\ current # Absent /\ resp'.relative)
                    => delta.num * base[1].v = (current[1].v - base[1].v) * delta.den]_vars

\* the product's container holds an instance equal to the instance (__eq__:
\* of the same key)
Contains(s, pid, rid) == \E i \in DOMAIN s.prod[pid].reports :
                             RepKey(s, s.prod[pid].reports[i]) = RepKey(s, rid)

\* C21: under add and remove the inner container of an entity never holds two
\* items of the same key; add of an item that is present and remove of an item
\* that is absent leave the container as it is; after add(x) the entity
\* contains x, after remove(x) it does not.
C21_ContainerIsASet ==
    [][resp'.op \in {"add", "remove_instance"}
       => LET pid == resp'.product
              rid == resp'.instance
              container == root'.prod[pid].reports
          IN /\ \A i, j \in DOMAIN container :
                    RepKey(root', container[i]) = RepKey(root', container[j]) => i = j
             /\ resp'.op = "add"
                    => /\ Contains(root', pid, rid)
                       /\ Contains(root, pid, rid) => root' = root
                       /\ ~Contains(root, pid, rid)
                              => container = Append(root.prod[pid].reports, rid)
             /\ resp'.op = "remove_instance"
                    => /\ ~Contains(root', pid, rid)
                       /\ ~Contains(root, pid, rid) => root' = root]_vars

\* C21 happens: an instance was added whose key the container already held
\* through another instance, among three items
C21_Witness ==
    /\ resp.op = "add"
    /\ resp.instance \notin Range(root.prod[1].reports)
    /\ Contains(root, 1, resp.instance)
    /\ Len(root.prod[1].reports) = 3

\* the amount of a package title, in tenths ("0.5 kg": 5)
Amount(package_title) == Tenths(Split(TextOf(package_title), <<" ">>)[1])

Candidates(s, pid, t, merchant) ==
    {r \in Range(s.prod[pid].reports) :
         /\ s.rep[r].date_time <= t
         /\ merchant # 0 => s.rep[r].merchant = merchant}

\* C23: Product.get_last_report(date_time, merchant) returns a report of the
\* product dated at or before date_time, of the merchant when one is given,
\* of the latest date among all such reports, and returns no value exactly
\* when there is no such report; get_last_reported_price returns the
\* normalized, or the raw, price of the last report up to date_time, or no value.
C23_LastReport ==
    [][resp'.op = "get_last_report"
       => LET pid == root.products[resp'.key]
              t == resp'.date_time
              candidates == Candidates(root, pid, t, resp'.merchant)
              all == Candidates(root, pid, t, 0)
          IN /\ resp'.report = 0 <=> candidates = {}
             /\ resp'.report # 0
                    => /\ resp'.report \in candidates
                       /\ \A r \in candidates :
                              root.rep[r].date_time <= root.rep[resp'.report].date_time
             /\ resp'.price = <<>> <=> all = {}
             /\ all # {}
                    => \E r \in all :
                           /\ \A q \in all : root.rep[q].date_time <= root.rep[r].date_time
                           /\ resp'.price = IF resp'.normalized
                                            THEN <<root.rep[r].normalized_price_value>>
                                            ELSE <<root.rep[r].price_value>>]_vars

\* C23 happens: the last report of the given merchant is older than the last
\* report of the product, which is another merchant's
C23_Witness ==
    /\ resp.op = "get_last_report"
    /\ resp.merchant # 0
    /\ resp.report # 0
    /\ \E r \in Candidates(root, root.products[resp.key], resp.date_time, 0) :
           root.rep[r].date_time > root.rep[resp.report].date_time

\* the product's stored package_ratio is at least the min_package_ratio
\* configured for the category, or none is configured
PackageFits(s, ckey, pid) ==
    \/ MinPackageRatio(ckey) = <<>>
    \/ /\ s.prod[pid].package_ratio # <<>>
       /\ s.prod[pid].package_ratio[1] * 10
              >= Tenths(TextOf(MinPackageRatio(ckey)[1])) * s.prod[pid].package_ratio[2]

\* C24: get_qualified_products(date_time) returns exactly the products of the
\* category whose package fits and that have a price as of date_time, each
\* paired with that price; a product with a price, whatever its value, is
\* kept when its package fits.
C24_QualifiedProducts ==
    [][resp'.op = "get_qualified_products"
       => LET ckey == resp'.key
              t == resp'.date_time
              tuples == resp'.tuples
          IN /\ {tuples[i][1] : i \in DOMAIN tuples}
                    = {pid \in Range(root.cat[ckey].products) :
                           PackageFits(root, ckey, pid)
                           /\ get_price(root, pid, t, None) # <<>>}
             /\ \A i \in DOMAIN tuples :
                    <<tuples[i][2]>> = get_price(root, tuples[i][1], t, None)]_vars

\* the nodes of the subtree rooted at node
RECURSIVE Subtree(_)
Subtree(node) ==
    {node} \cup (IF "sub" \in DOMAIN node
                 THEN UNION {Subtree(node.sub[i]) : i \in DOMAIN node.sub}
                 ELSE {})

\* the words of the phrases of a keyword or stopword field
Phrases(field) == {Range(Split(phrase, <<" ">>)) : phrase \in Range(Split(TextOf(field), <<",", " ">>))}

\* the node has a keyword phrase all of whose words are in the text and, when
\* it has a stopword field, no stopword is in the text
Satisfies(node, text) ==
    /\ "keyword" \in DOMAIN node
    /\ \E words \in Phrases(node.keyword) : \A word \in words : IsIn(word, TextOf(text))
    /\ "stopword" \in DOMAIN node
           => \A words \in Phrases(node.stopword) :
                  \A word \in words : ~IsIn(word, TextOf(text))

\* C25: keyword_lookup(text, node) returns a node of the subtree of node that
\* satisfies the keyword and stopword conditions, returns no value exactly
\* when no node of the subtree does, and never returns a descendant of a
\* node that satisfies them.
C25_KeywordLookup ==
    [][resp'.op = "keyword_lookup"
       => LET match == resp'.match
              fit == {n \in Subtree(resp'.data_map) : Satisfies(n, resp'.string_)}
          IN /\ match = <<>> <=> fit = {}
             /\ match # <<>>
                    => /\ match[1] \in fit
                       /\ \A n \in fit : match[1] \notin Subtree(n) \ {n}]_vars

\* a lookup has passed over a node with a matching keyword because of its
\* stopword and has returned a descendant of a node without keyword
C25_Witness ==
    /\ resp.op = "keyword_lookup"
    /\ resp.match # <<>>
    /\ resp.match[1] # resp.data_map
    /\ \E n \in Subtree(resp.data_map) :
           /\ "stopword" \in DOMAIN n
           /\ ~Satisfies(n, resp.string_)
           /\ Satisfies([keyword |-> n.keyword], resp.string_)

\* C26: each report stored in 'reports' has a product that is stored in
\* 'products' and lists the report, and each report listed by a stored
\* product is stored in 'reports'.
C26_ReportsIntegrity ==
    /\ \A rid \in Range(root.reports) :
           /\ root.rep[rid].product \in Range(root.products)
           /\ rid \in Range(root.prod[root.rep[rid].product].reports)
    /\ \A pid \in Range(root.products) :
           Range(root.prod[pid].reports) \subseteq Range(root.reports)

\* C27: a stored product is in a stored merchant's products container
\* exactly when the merchant is in the product's merchants list, and no
\* stored merchant's container refers to a product that is not stored.
C27_LinksSymmetric ==
    /\ \A pid \in Range(root.products), mid \in Range(root.merchants) :
           pid \in Range(root.merch[mid].products)
               <=> mid \in Range(root.prod[pid].merchants)
    /\ \A mid \in Range(root.merchants) :
           Range(root.merch[mid].products) \subseteq Range(root.products)

\* a product was deleted that shared a merchant with a product still stored
C27_Witness ==
    /\ resp.op = "product_delete_from"
    /\ resp.err = None
    /\ resp.key \notin DOMAIN root.products
    /\ \E pid \in Range(root.products), mid \in Range(root.merchants) :
           /\ root.merch[mid].products = <<pid>>
           /\ root.prod[pid].merchants = <<mid>>
           /\ Len(root.prod[pid].reports) = 1

\* C28: after Merchant.patch on a stored merchant the merchant is stored
\* under its current key, its old key, when different, no longer maps to it,
\* and every other stored merchant is stored as before, also when the new key
\* was taken by one of them.
C28_PatchKeepsMerchantStored ==
    [][resp'.op = "patch"
       => LET mid == resp'.instance
              key == resp'.key
              old_key == resp'.old_key
          IN /\ Has(root', "merchants", key) /\ root'.merchants[key] = mid
             /\ old_key # key
                    => ~(Has(root', "merchants", old_key) /\ root'.merchants[old_key] = mid)
             /\ \A k \in DOMAIN root.merchants :
                    root.merchants[k] # mid
                        => Has(root', "merchants", k)
                           /\ root'.merchants[k] = root.merchants[k]]_vars

\* the orders in which n merchants can be listed
Orders(n) == {f \in [1..n -> 1..n] : \A i, j \in 1..n : f[i] = f[j] => i = j}

\* the store in which the merchants of the product are listed in the order f
Relinked(s, pid, f) ==
    [s EXCEPT !.prod[pid].merchants = [i \in DOMAIN @ |-> @[f[i]]]]

\* C29: Product.get_price with a location does not depend on the order in
\* which the merchants were linked to the product, and a fresh report from a
\* merchant at the location gives the product a price at that location.
C29_PriceAtLocation ==
    [][resp'.op = "get_price_at"
       => \A pid \in Range(root.products) :
              ProdKey(root, pid) = resp'.key
                  => /\ \A f \in Orders(Len(root.prod[pid].merchants)) :
                            resp'.price = get_price(Relinked(root, pid, f), pid,
                                                    resp'.date_time, resp'.location)
                     /\ (\E mid \in Range(root.prod[pid].merchants) :
                             /\ root.merch[mid].location = resp'.location
                             /\ \E r \in InWindow(root, pid, resp'.date_time) :
                                    root.rep[r].merchant = mid)
                            => resp'.price # <<>>]_vars

\* C30: Product.get_price_delta and ProductCategory.get_price_delta return a
\* number and never raise; the result is 0 when the baseline price or the
\* current price is absent and when the baseline price is 0.
C30_PriceDeltaNeverRaises ==
    [][resp'.op \in {"get_price_delta", "category_get_price_delta"}
       => /\ resp'.call.delta.error = None
          /\ (\/ resp'.call.base_price = <<>>
              \/ resp'.call.current_price = <<>>
              \/ resp'.call.base_price = <<0>>)
                 => resp'.call.delta.num = 0]_vars

=============================================================================
